---- MODULE Spec2Model ----
(***************************************************************************)
(* OTP lifecycle of the bizkey backend: the request handlers sendOTP,      *)
(* verifyOTP, resendOTP and getOTPStatus over the Otp collection, the      *)
(* Notification audit log they append to with the handlers that read and   *)
(* mark it, and the WhatsApp delivery service.                             *)
(*                                                                         *)
(* The Otp mongoose model (models/Otp.js) is not part of the sources at    *)
(* hand: its schema defaults and its isValid method are taken from the     *)
(* written specification (section 3 and 4.1).                              *)
(*                                                                         *)
(* Time is in milliseconds, as Date arithmetic is in the handlers.         *)
(***************************************************************************)
EXTENDS Integers, Naturals, Sequences, FiniteSets, Bags, TLC

VARIABLES
    otps,           \* the Otp collection; a document's _id is its index
    notifications,  \* the Notification collection
    now,            \* the wall clock, ms
    last,           \* the last request handled to completion, its time and response
    wrongs,         \* per client: wrong-code verifyOTP calls since the last issue
    verified,       \* <<client, code>> pairs verified since the client's last issue
    accepted,       \* bag of the _ids verifyOTP answered with success
    replays,        \* the _ids so accepted for a <<client, code>> already in verified
    superseded,     \* the _ids an updateMany of sendOTP / resendOTP marked used
    reqs            \* requests in flight (step-wise specifications only)

vars == <<otps, notifications, now, last, wrongs, verified, accepted, replays, superseded, reqs>>

----------------------------------------------------------------------------
(* Bounds of the model *)

MaxOtps == 2        \* Otp documents ever created

(* Program constants *)

OtpTTL == 300000        \* expiresAt = createdAt + 5 minutes
MaxAttempts == 3        \* isValid: attempts < 3
minInterval == 30000    \* resendOTP: 30 * 1000

----------------------------------------------------------------------------
(* The Client collection; the OTP handlers only read it. "c3" has no phone *)
(* number, "cx" is the id of no client.                                    *)

Clients == [c1 |-> [name |-> "n1", phone |-> "9876543210"],
            c2 |-> [name |-> "n2", phone |-> "9876543211"],
            c3 |-> [name |-> "n3", phone |-> ""]]

ClientIds == {"c1", "c2", "c3", "cx"}

(* The clients verifyOTP and getOTPStatus are asked about: no code is ever *)
(* issued to "c3" or to "cx", so one of them stands for both              *)
Subjects == {"c1", "c2", "cx"}

(* req.user as the auth middleware leaves it; NoUser: the route ran without *)
NoUser == "nouser"
Users == [s1 |-> "salesman", s2 |-> "salesman", a1 |-> "admin"]
UserIds == DOMAIN Users

(* Some of the values Math.floor(100000 + Math.random() * 900000).toString() *)
(* takes: the least and the greatest.                                        *)
generateOTP == {"100000", "999999"}

(* What a caller may submit to verifyOTP: those, and a code never issued *)
SubmittedCodes == generateOTP \cup {"000000"}

(* The instants at which requests arrive in Spec: before and at the expiry *)
(* of a code issued at 0                                                   *)
Instants == {0, 300000}

(* The instants of SpecClock: within and at the end of the 30 s of the   *)
(* throttle of a code issued at 0 or at 1, and the expiry of one issued  *)
(* at 0                                                                  *)
Moments == {0, 1, 29999, 30000, 300000}

(* The clients of SpecClock, the code issued and the codes submitted *)
ClockClients == {"c1", "c3", "cx"}
ClockCodes == {"100000"}
ClockSubmitted == {"100000", "000000"}

(* The clients and the users of SpecAudit, and the ids markAsRead is given: *)
(* those of the events there may be, and 0, the id of none                  *)
AuditClients == {"c1", "cx"}
AuditActors == UserIds \cup {NoUser}
NotificationIds == 0..MaxOtps

(* The client of SpecInbox, and the salesmanId getNotifications is asked for *)
InboxClients == {"c1"}
AskedSalesmen == {"", "s2"}

(* What whatsappService.sendOTP is called with and meets: a number of 10   *)
(* digits, one with its country code and a sign, a short one; the two      *)
(* environment variables set or not; the HTTP call answered with a message *)
(* id, answered with no messages, rejected, or failing with no answer      *)
PhoneInputs == {<<"9", "8", "7", "6", "5", "4", "3", "2", "1", "0">>,
                <<"+", "9", "1", "9", "8", "7", "6", "5", "4", "3", "2", "1", "0">>,
                <<"1", "2", "3">>}
Envs == [token : BOOLEAN, phoneNumberId : BOOLEAN]
HttpOutcomes == {"sent", "noMessages", "rejected", "network"}

(* The clients of SpecPair *)
PairClients == {"c1", "c2"}

(* The step-wise specifications run two requests at a time *)
Slots == {1, 2}

(* The clients of the step-wise specifications *)
ConcClients == {"c1"}

(* Who sends the requests of Spec *)
Actors == {"s1"}

----------------------------------------------------------------------------
(* models/Otp.js *)

OtpDefaults(t) ==
    [createdAt |-> t, expiresAt |-> t + OtpTTL, attempts |-> 0, isUsed |-> FALSE]

isValid(doc, t) ==
    /\ ~doc.isUsed
    /\ t < doc.expiresAt
    /\ doc.attempts < MaxAttempts

----------------------------------------------------------------------------
(* Collection operations *)

\* (Otp.deleteMany for Otp.updateMany)
DeleteMany(o, c) == SelectSeq(o, LAMBDA d : ~(d.client = c /\ ~d.isUsed))

\* (an updateMany whose filter matches no document)
UpdateManyNone(o, c) == o

\* Otp.updateMany({client, isUsed: false}, {isUsed: true})
UpdateManyUsed(o, c) ==
    [i \in DOMAIN o |->
        IF o[i].client = c /\ ~o[i].isUsed
        THEN [o[i] EXCEPT !.isUsed = TRUE]
        ELSE o[i]]

\* new Otp({client, otp, phone})
NewOtp(c, code, phone, t) ==
    [client |-> c, otp |-> code, phone |-> phone] @@ OtpDefaults(t)

\* .sort({createdAt: -1}) then the first: the documents of S created last.
\* Documents created in the same millisecond are in no defined order.
Latest(o, S) ==
    {i \in S : \A j \in S : o[j].createdAt <= o[i].createdAt}

\* (the filter without otp: the client's latest unused record, whatever its code)
FindOneVerifyAnyCode(o, c, code) ==
    Latest(o, {i \in DOMAIN o : o[i].client = c /\ ~o[i].isUsed})

\* (the filter without client: the latest unused record with the code)
FindOneVerifyAnyClient(o, c, code) ==
    Latest(o, {i \in DOMAIN o : o[i].otp = code /\ ~o[i].isUsed})

\* Otp.findOne({client, otp, isUsed: false}).sort({createdAt: -1})
FindOneVerify(o, c, code) ==
    Latest(o, {i \in DOMAIN o : o[i].client = c /\ o[i].otp = code /\ ~o[i].isUsed})

\* Otp.findOne({client, isUsed: false}).sort({createdAt: -1})
FindOneResend(o, c) ==
    Latest(o, {i \in DOMAIN o : o[i].client = c /\ ~o[i].isUsed})

\* Otp.findOne({client}).sort({createdAt: -1})
FindOneStatus(o, c) ==
    Latest(o, {i \in DOMAIN o : o[i].client = c})

\* what findOne resolves to: one of the documents found, or null (0)
OrNone(S) == IF S = {} THEN {0} ELSE S

\* doc.save() of a fetched document: mongoose writes the modified paths only
SaveDoc(o, i, doc, paths) ==
    [o EXCEPT ![i] = [f \in DOMAIN o[i] |-> IF f \in paths THEN doc[f] ELSE o[i][f]]]

\* new Notification({...}) of sendOTP / resendOTP, isRead by the schema's default
NewNotification(type, u, c, otpId) ==
    [type |-> type, salesman |-> u, client |-> c,
     clientName |-> Clients[c].name, clientPhone |-> Clients[c].phone,
     status |-> "success", otpId |-> otpId, isRead |-> FALSE]

\* (no filter by role: every user's query reaches every event)
OwnQueryAny(n, u) == TRUE

\* the filter of markAsRead / markAllAsRead / getUnreadCount: a salesman's
\* own, an admin's all
OwnQuery(n, u) == Users[u] = "salesman" => n.salesman = u

\* the filter of getNotifications: a salesman's own; an admin's all, or those
\* of the salesmanId asked for; then by type and by client when given
ListQuery(n, u, type, salesmanId, clientId) ==
    /\ IF Users[u] = "salesman" THEN n.salesman = u
       ELSE salesmanId # "" => n.salesman = salesmanId
    /\ type # "" => n.type = type
    /\ clientId # "" => n.client = clientId

\* (isRead: false for isRead: true)
FindOneAndUpdateUnread(ns, id) == [ns EXCEPT ![id].isRead = FALSE]

\* Notification.findOneAndUpdate(query, {isRead: true}) of the document found
FindOneAndUpdateRead(ns, id) == [ns EXCEPT ![id].isRead = TRUE]

\* Notification.updateMany({isRead: false, ...}, {isRead: true})
UpdateManyRead(ns, u) ==
    [k \in DOMAIN ns |->
        IF ~ns[k].isRead /\ OwnQuery(ns[k], u)
        THEN [ns[k] EXCEPT !.isRead = TRUE]
        ELSE ns[k]]

----------------------------------------------------------------------------
(* Responses. A field the response does not carry is "" or -1.              *)

NoResp ==
    [status |-> 0, success |-> FALSE, message |-> "", attemptsLeft |-> -1,
     waitTime |-> -1, otp |-> "", otpId |-> 0, hasActiveOTP |-> FALSE,
     isUsed |-> FALSE, attempts |-> -1, timeLeft |-> -1,
     notifications |-> {}, total |-> -1, count |-> -1, phoneNumber |-> <<>>]

ClientNotFound ==
    [NoResp EXCEPT !.status = 404, !.message = "Client not found"]

NoPhone ==
    [NoResp EXCEPT !.status = 400, !.message = "Client does not have a phone number"]

InvalidOtp ==
    [NoResp EXCEPT !.status = 400, !.message = "Invalid OTP"]

Expired ==
    [NoResp EXCEPT !.status = 400,
                   !.message = "OTP has expired or exceeded maximum attempts"]

Generated(op, code, id) ==
    [NoResp EXCEPT !.status = 200, !.success = TRUE,
                   !.message = IF op = "sendOTP"
                               THEN "OTP generated successfully (Testing mode - WhatsApp disabled)"
                               ELSE "OTP regenerated successfully (Testing mode - WhatsApp disabled)",
                   !.otp = code, !.otpId = id]

RateLimited(waitTime) ==
    [NoResp EXCEPT !.status = 429, !.message = "Please wait", !.waitTime = waitTime]

Verified ==
    [NoResp EXCEPT !.status = 200, !.success = TRUE, !.message = "OTP verified successfully"]

\* the response of every handler's catch block
ServerError ==
    [NoResp EXCEPT !.status = 500, !.message = "Server error"]

NotificationNotFound ==
    [NoResp EXCEPT !.status = 404, !.message = "Notification not found"]

MarkedRead ==
    [NoResp EXCEPT !.status = 200, !.message = "Notification marked as read"]

AllMarkedRead ==
    [NoResp EXCEPT !.status = 200, !.message = "All notifications marked as read"]

\* (resendOTP logging the type of sendOTP)
AuditTypeSent(op) == "otp_sent"

\* the notification type each handler logs
AuditType(op) == IF op = "sendOTP" THEN "otp_sent" ELSE "otp_resent"

NoReq == [op |-> "none", client |-> "", otp |-> "", user |-> NoUser,
          otpId |-> 0, resp |-> NoResp, wrongs |-> 0, at |-> 0, fault |-> ""]

----------------------------------------------------------------------------
(* class WhatsAppService. A phone number is the sequence of its characters. *)

Digits == {"0", "1", "2", "3", "4", "5", "6", "7", "8", "9"}

\* phone.replace(/\D/g, ''), and '91' before a number of 10 digits
formatPhoneNumber(phone) ==
    LET cleanPhone == SelectSeq(phone, LAMBDA ch : ch \in Digits) IN
    IF Len(cleanPhone) = 10 THEN <<"9", "1">> \o cleanPhone ELSE cleanPhone

\* the body of the try block of sendOTP (lines 50-106): what it returns, or
\* the error it throws. env: whether WHATSAPP_TOKEN and
\* WHATSAPP_PHONE_NUMBER_ID are set; http: what axios.post does.
TrySendOTP(to, otp, env, http) ==
    IF ~env.token \/ ~env.phoneNumberId
    THEN [threw |-> TRUE, error |-> "WhatsApp credentials not configured", code |-> 0]
    ELSE IF http = "rejected"
    THEN [threw |-> TRUE, error |-> "response.data", code |-> 401]
    ELSE IF http = "network"
    THEN [threw |-> TRUE, error |-> "Network Error", code |-> 0]
    ELSE IF http = "noMessages"
    THEN [threw |-> TRUE, error |-> "Cannot read properties of undefined", code |-> 0]
    ELSE [threw |-> FALSE, error |-> "", code |-> 0]

\* (sendOTP with no try / catch: the error goes to the caller)
whatsappSendOTPThrowing(to, otp, env, http) ==
    LET t == TrySendOTP(to, otp, env, http) IN
    IF t.threw
    THEN [NoResp EXCEPT !.message = "threw"]
    ELSE [NoResp EXCEPT !.success = TRUE, !.message = "sent",
                        !.phoneNumber = formatPhoneNumber(to)]

\* WhatsAppService.sendOTP (lines 49-115): the object it returns
whatsappSendOTP(to, otp, env, http) ==
    LET t == TrySendOTP(to, otp, env, http) IN
    IF t.threw
    THEN [NoResp EXCEPT !.success = FALSE, !.message = t.error, !.status = t.code]
    ELSE [NoResp EXCEPT !.success = TRUE, !.message = "sent",
                        !.phoneNumber = formatPhoneNumber(to)]

----------------------------------------------------------------------------
(* verifyOTP, from the fetched document on (lines 320-356): the document   *)
(* as the handler leaves it, the paths it modified, and the response.      *)

\* (attempts -= 1)
DropAttempts(doc) == [doc EXCEPT !.attempts = @ - 1]

\* otpRecord.attempts += 1
BumpAttempts(doc) == [doc EXCEPT !.attempts = @ + 1]

\* (the branch of an invalid record writing isUsed = false)
VerifyFetchedUnused(doc, code, t) ==
    IF ~isValid(doc, t)
    THEN [doc |-> [doc EXCEPT !.isUsed = FALSE], paths |-> {"isUsed"}, resp |-> Expired]
    ELSE LET d == BumpAttempts(doc) IN
         IF d.otp # code
         THEN [doc |-> d, paths |-> {"attempts"},
               resp |-> [InvalidOtp EXCEPT !.attemptsLeft = 3 - d.attempts]]
         ELSE [doc |-> [d EXCEPT !.isUsed = TRUE], paths |-> {"attempts", "isUsed"},
               resp |-> Verified]

\* (no isValid check before the code is accepted)
VerifyFetchedUnchecked(doc, code, t) ==
    LET d == BumpAttempts(doc) IN
    IF d.otp # code
    THEN [doc |-> d, paths |-> {"attempts"},
          resp |-> [InvalidOtp EXCEPT !.attemptsLeft = 3 - d.attempts]]
    ELSE [doc |-> [d EXCEPT !.isUsed = TRUE], paths |-> {"attempts", "isUsed"},
          resp |-> Verified]

VerifyFetched(doc, code, t) ==
    IF ~isValid(doc, t)
    THEN [doc |-> [doc EXCEPT !.isUsed = TRUE], paths |-> {"isUsed"}, resp |-> Expired]
    ELSE LET d == BumpAttempts(doc) IN
         IF d.otp # code
         THEN [doc |-> d, paths |-> {"attempts"},
               resp |-> [InvalidOtp EXCEPT !.attemptsLeft = 3 - d.attempts]]
         ELSE [doc |-> [d EXCEPT !.isUsed = TRUE], paths |-> {"attempts", "isUsed"},
               resp |-> Verified]

\* resendOTP's throttle (lines 400-411): the wait time, or 0 when not throttled

\* (Math.floor for Math.ceil)
Floor1000(x) == x \div 1000

Ceil1000(x) == (x + 999) \div 1000

\* (the throttle of twice minInterval)
ResendWaitTwice(o, found, t) ==
    IF found # 0 /\ isValid(o[found], t) /\ t - o[found].createdAt < 2 * minInterval
    THEN Ceil1000(2 * minInterval - (t - o[found].createdAt))
    ELSE 0

ResendWait(o, found, t) ==
    IF found # 0 /\ isValid(o[found], t) /\ t - o[found].createdAt < minInterval
    THEN Ceil1000(minInterval - (t - o[found].createdAt))
    ELSE 0

\* getOTPStatus's response (lines 488-510)
StatusResp(o, found, t) ==
    IF found = 0
    THEN [NoResp EXCEPT !.status = 200, !.success = TRUE, !.message = "No OTP found"]
    ELSE [NoResp EXCEPT !.status = 200, !.success = TRUE,
                        !.hasActiveOTP = isValid(o[found], t),
                        !.isUsed = o[found].isUsed,
                        !.attempts = o[found].attempts,
                        !.timeLeft = IF o[found].expiresAt > t
                                     THEN (o[found].expiresAt - t) \div 1000 ELSE 0]

----------------------------------------------------------------------------
(* Bookkeeping of the history variables *)

\* the client's documents that are still unused
Unused(o, c) == {i \in DOMAIN o : o[i].client = c /\ ~o[i].isUsed}

\* a verifyOTP of code for c is a wrong-code attempt against an active record
WrongAttempt(o, c, code) == \E i \in Unused(o, c) : o[i].otp # code

\* how many wrong-code attempts against c's active record came just before
Streak(c) == IF wrongs.client = c THEN wrongs.n ELSE 0

InFlight(r) == reqs[r].pc # "idle"

\* no request that issues a code to c is in flight
Quiet(c) ==
    \A r \in Slots :
        ~(InFlight(r) /\ reqs[r].op \in {"sendOTP", "resendOTP"} /\ reqs[r].client = c)

\* a verifyOTP of a code that a verifyOTP has accepted since c's last issue
Replay(op, c, code) == op = "verifyOTP" /\ <<c, code>> \in verified /\ Quiet(c)

Attempts(op, c, code) ==
    wrongs' = IF op = "verifyOTP" /\ WrongAttempt(otps, c, code)
                 THEN [client |-> c,
                       n |-> IF Streak(c) < MaxAttempts THEN Streak(c) + 1
                             ELSE MaxAttempts + 1]
                 ELSE [client |-> "", n |-> 0]

Outcomes(op, c, code, id, resp, replay) ==
    /\ verified' = IF op \in {"sendOTP", "resendOTP"} /\ resp.success
                   THEN {p \in verified : p[1] # c}
                   ELSE IF op = "verifyOTP" /\ resp.success /\ Quiet(c)
                   THEN verified \cup {<<c, code>>}
                   ELSE verified
    /\ accepted' = IF op = "verifyOTP" /\ resp.success
                   THEN accepted (+) SetToBag({id})
                   ELSE accepted
    /\ replays' = IF op = "verifyOTP" /\ resp.success /\ replay
                  THEN replays \cup {id}
                  ELSE replays

----------------------------------------------------------------------------
Init ==
    /\ otps = <<>>
    /\ notifications = <<>>
    /\ now = 0
    /\ last = NoReq
    /\ wrongs = [client |-> "", n |-> 0]
    /\ verified = {}
    /\ accepted = EmptyBag
    /\ replays = {}
    /\ superseded = {}
    /\ reqs = [r \in Slots |-> [op |-> "idle", pc |-> "idle", client |-> "", otp |-> "",
                                   user |-> NoUser, otpId |-> 0, doc |-> <<>>, paths |-> {},
                                   resp |-> NoResp, replay |-> FALSE]]

\* the clock moves on to instant t
Tick(t) ==
    /\ t > now
    /\ now' = t
    /\ UNCHANGED <<otps, notifications, last, wrongs, verified, accepted, replays, superseded, reqs>>

----------------------------------------------------------------------------
(* The handlers, each run from its first line to its response *)

Done(op, c, code, u, id, resp) ==
    /\ last' = [op |-> op, client |-> c, otp |-> code, user |-> u,
                otpId |-> id, resp |-> resp,
                wrongs |-> IF op = "verifyOTP" THEN Streak(c) ELSE 0,
                at |-> now, fault |-> ""]
    /\ Attempts(op, c, code)
    /\ Outcomes(op, c, code, id, resp, Replay(op, c, code))

\* sendOTP / resendOTP from generateOTP on (lines 230-283, 413-466)
Issue(op, c, u, K) ==
    \E code \in K :
    LET id == Len(otps) + 1 IN
    /\ Len(otps) < MaxOtps
    /\ otps' = Append(UpdateManyUsed(otps, c), NewOtp(c, code, Clients[c].phone, now))
    /\ notifications' = IF u # NoUser
                        THEN Append(notifications, NewNotification(AuditType(op), u, c, id))
                        ELSE notifications
    /\ superseded' = superseded \cup Unused(otps, c)
    /\ Done(op, c, "", u, id, Generated(op, code, id))

Reject(op, c, code, u, resp) ==
    /\ Done(op, c, code, u, 0, resp)
    /\ UNCHANGED <<otps, notifications, superseded>>

\* (sendOTP with the throttle of resendOTP)
sendOTPThrottled(c, u, K) ==
    /\ UNCHANGED <<now, reqs>>
    /\ IF c \notin DOMAIN Clients THEN Reject("sendOTP", c, "", u, ClientNotFound)
       ELSE IF Clients[c].phone = "" THEN Reject("sendOTP", c, "", u, NoPhone)
       ELSE \E found \in OrNone(FindOneResend(otps, c)) :
            IF ResendWait(otps, found, now) > 0
            THEN Reject("sendOTP", c, "", u, RateLimited(ResendWait(otps, found, now)))
            ELSE Issue("sendOTP", c, u, K)

\* (sendOTP without the check of the client's phone number)
sendOTPAnyPhone(c, u, K) ==
    /\ UNCHANGED <<now, reqs>>
    /\ IF c \notin DOMAIN Clients THEN Reject("sendOTP", c, "", u, ClientNotFound)
       ELSE Issue("sendOTP", c, u, K)

\* K: what Otp.generateOTP() may return in this request
sendOTP(c, u, K) ==
    /\ UNCHANGED <<now, reqs>>
    /\ IF c \notin DOMAIN Clients THEN Reject("sendOTP", c, "", u, ClientNotFound)
       ELSE IF Clients[c].phone = "" THEN Reject("sendOTP", c, "", u, NoPhone)
       ELSE Issue("sendOTP", c, u, K)

\* (resendOTP without its Otp.updateMany)
resendOTPKeeping(c, u, K) ==
    /\ UNCHANGED <<now, reqs>>
    /\ IF c \notin DOMAIN Clients THEN Reject("resendOTP", c, "", u, ClientNotFound)
       ELSE IF Clients[c].phone = "" THEN Reject("resendOTP", c, "", u, NoPhone)
       ELSE \E found \in OrNone(FindOneResend(otps, c)) :
            IF ResendWait(otps, found, now) > 0
            THEN Reject("resendOTP", c, "", u, RateLimited(ResendWait(otps, found, now)))
            ELSE \E code \in K :
                 /\ Len(otps) < MaxOtps
                 /\ otps' = Append(otps, NewOtp(c, code, Clients[c].phone, now))
                 /\ notifications' = IF u # NoUser
                                     THEN Append(notifications,
                                                 NewNotification("otp_resent", u, c, Len(otps) + 1))
                                     ELSE notifications
                 /\ superseded' = superseded
                 /\ Done("resendOTP", c, "", u, Len(otps) + 1,
                         Generated("resendOTP", code, Len(otps) + 1))

resendOTP(c, u, K) ==
    /\ UNCHANGED <<now, reqs>>
    /\ IF c \notin DOMAIN Clients THEN Reject("resendOTP", c, "", u, ClientNotFound)
       ELSE IF Clients[c].phone = "" THEN Reject("resendOTP", c, "", u, NoPhone)
       ELSE \E found \in OrNone(FindOneResend(otps, c)) :
            IF ResendWait(otps, found, now) > 0
            THEN Reject("resendOTP", c, "", u, RateLimited(ResendWait(otps, found, now)))
            ELSE Issue("resendOTP", c, u, K)

\* (a code that matches no record counted against the client's active record)
verifyOTPCounting(c, code) ==
    /\ UNCHANGED <<now, reqs, notifications, superseded>>
    /\ IF FindOneVerify(otps, c, code) = {}
       THEN /\ Done("verifyOTP", c, code, NoUser, 0, InvalidOtp)
            /\ otps' = [i \in DOMAIN otps |->
                            IF i \in Unused(otps, c) THEN BumpAttempts(otps[i]) ELSE otps[i]]
       ELSE \E i \in FindOneVerify(otps, c, code) :
            LET v == VerifyFetched(otps[i], code, now) IN
            /\ otps' = SaveDoc(otps, i, v.doc, v.paths)
            /\ Done("verifyOTP", c, code, NoUser, i, v.resp)

verifyOTP(c, code) ==
    /\ UNCHANGED <<now, reqs, notifications, superseded>>
    /\ IF FindOneVerify(otps, c, code) = {}
       THEN /\ Done("verifyOTP", c, code, NoUser, 0, InvalidOtp)
            /\ UNCHANGED otps
       ELSE \E i \in FindOneVerify(otps, c, code) :
            LET v == VerifyFetched(otps[i], code, now) IN
            /\ otps' = SaveDoc(otps, i, v.doc, v.paths)
            /\ Done("verifyOTP", c, code, NoUser, i, v.resp)

\* (getOTPStatus marking the record it finds invalid as used)
getOTPStatusSweeping(c) ==
    /\ UNCHANGED <<now, reqs, notifications, superseded>>
    /\ \E found \in OrNone(FindOneStatus(otps, c)) :
        /\ otps' = IF found # 0 /\ ~isValid(otps[found], now)
                   THEN [otps EXCEPT ![found].isUsed = TRUE]
                   ELSE otps
        /\ Done("getOTPStatus", c, "", NoUser, found, StatusResp(otps, found, now))

getOTPStatus(c) ==
    /\ UNCHANGED <<now, reqs, otps, notifications, superseded>>
    /\ \E found \in OrNone(FindOneStatus(otps, c)) :
        Done("getOTPStatus", c, "", NoUser, found, StatusResp(otps, found, now))

Next ==
    \/ \E t \in Instants : Tick(t)
    \/ \E c \in ClientIds, u \in Actors : sendOTP(c, u, generateOTP)
    \/ \E c \in ClientIds, u \in Actors : resendOTP(c, u, generateOTP)
    \/ \E c \in Subjects, code \in SubmittedCodes : verifyOTP(c, code)
    \/ \E c \in Subjects : getOTPStatus(c)

Spec == Init /\ [][Next]_vars

(* controllers/notification.js: the handlers that write the audit log. The *)
(* routes run them behind the auth middleware, so req.user is a user.      *)

\* PATCH /api/notifications/:id/read
markAsRead(id, u) ==
    /\ UNCHANGED <<now, reqs, otps, superseded>>
    /\ IF id \in DOMAIN notifications /\ OwnQuery(notifications[id], u)
       THEN /\ notifications' = FindOneAndUpdateRead(notifications, id)
            /\ Done("markAsRead", "", "", u, id, MarkedRead)
       ELSE /\ notifications' = notifications
            /\ Done("markAsRead", "", "", u, id, NotificationNotFound)

\* PATCH /api/notifications/read-all
markAllAsRead(u) ==
    /\ UNCHANGED <<now, reqs, otps, superseded>>
    /\ notifications' = UpdateManyRead(notifications, u)
    /\ Done("markAllAsRead", "", "", u, 0, AllMarkedRead)

\* GET /api/notifications, first page of the default limit: the _ids found
\* (the request is recorded with its clientId and, for otp, its salesmanId)
getNotifications(u, type, salesmanId, clientId) ==
    /\ UNCHANGED <<now, reqs, otps, notifications, superseded>>
    /\ LET found == {k \in DOMAIN notifications :
                        ListQuery(notifications[k], u, type, salesmanId, clientId)}
       IN Done("getNotifications", clientId, salesmanId, u, 0,
               [NoResp EXCEPT !.status = 200, !.notifications = found,
                              !.total = Cardinality(found)])

\* GET /api/notifications/unread-count
getUnreadCount(u) ==
    /\ UNCHANGED <<now, reqs, otps, notifications, superseded>>
    /\ Done("getUnreadCount", "", "", u, 0,
            [NoResp EXCEPT !.status = 200,
                           !.count = Cardinality({k \in DOMAIN notifications :
                                        /\ ~notifications[k].isRead
                                        /\ OwnQuery(notifications[k], u)})])

(* The audit log as its readers see it: codes issued to a client by two    *)
(* salesmen and an admin, and the four handlers of the log.                *)
InboxNext ==
    \/ \E c \in InboxClients, u \in UserIds : sendOTP(c, u, ClockCodes)
    \/ \E c \in InboxClients, u \in UserIds : resendOTP(c, u, ClockCodes)
    \/ \E id \in NotificationIds, u \in UserIds : markAsRead(id, u)
    \/ \E u \in UserIds : markAllAsRead(u)
    \/ \E u \in UserIds, salesmanId \in AskedSalesmen :
            getNotifications(u, "", salesmanId, "")
    \/ \E u \in UserIds : getUnreadCount(u)

SpecInbox == Init /\ [][InboxNext]_vars

(* The audit log: codes issued to one client by each user, and by a        *)
(* request that carries no user, and the log's events marked as read.      *)
AuditNext ==
    \/ \E t \in Instants : Tick(t)
    \/ \E c \in AuditClients, u \in AuditActors : sendOTP(c, u, ClockCodes)
    \/ \E c \in AuditClients, u \in AuditActors : resendOTP(c, u, ClockCodes)
    \/ \E id \in NotificationIds, u \in UserIds : markAsRead(id, u)
    \/ \E u \in UserIds : markAllAsRead(u)

SpecAudit == Init /\ [][AuditNext]_vars

\* a call of whatsappService.sendOTP; the request handlers make none (lines
\* 245-250 and 428-433 are commented out). The call is recorded with env
\* for its client and http for its otp.
deliver(to, otp, env, http) ==
    /\ UNCHANGED <<now, reqs, otps, notifications, superseded>>
    /\ Done("whatsappService.sendOTP",
            IF env.token /\ env.phoneNumberId THEN "configured" ELSE "not configured",
            http, NoUser, 0, whatsappSendOTP(to, otp, env, http))

(* Codes issued to a client, and messages sent through the WhatsApp API *)
DeliveryNext ==
    \/ \E t \in Instants : Tick(t)
    \/ \E c \in InboxClients, u \in Actors : sendOTP(c, u, ClockCodes)
    \/ \E c \in InboxClients, u \in Actors : resendOTP(c, u, ClockCodes)
    \/ \E c \in InboxClients, code \in ClockSubmitted : verifyOTP(c, code)
    \/ \E to \in PhoneInputs, otp \in ClockCodes, env \in Envs, http \in HttpOutcomes :
            deliver(to, otp, env, http)

SpecDelivery == Init /\ [][DeliveryNext]_vars

(* Two clients that are issued the same code *)
PairNext ==
    \/ \E t \in Instants : Tick(t)
    \/ \E c \in PairClients, u \in Actors : sendOTP(c, u, ClockCodes)
    \/ \E c \in PairClients, u \in Actors : resendOTP(c, u, ClockCodes)
    \/ \E c \in PairClients, code \in ClockSubmitted : verifyOTP(c, code)

SpecPair == Init /\ [][PairNext]_vars

(* The same handlers on a finer clock: the instants around the 30 seconds *)
(* of resendOTP's throttle, for a client, a client with no phone number   *)
(* and the id of no client.                                               *)
ClockNext ==
    \/ \E t \in Moments : Tick(t)
    \/ \E c \in ClockClients, u \in Actors : sendOTP(c, u, ClockCodes)
    \/ \E c \in ClockClients, u \in Actors : resendOTP(c, u, ClockCodes)
    \/ \E c \in ClockClients, code \in ClockSubmitted : verifyOTP(c, code)
    \/ \E c \in ClockClients : getOTPStatus(c)

SpecClock == Init /\ [][ClockNext]_vars

----------------------------------------------------------------------------
(* The handlers step by step: a request gives way to the others at each   *)
(* await, that is around each operation on a collection. Client.findById  *)
(* reads a collection no handler writes, so it is taken with the step     *)
(* that follows it.                                                       *)

\* (otp.save before Otp.updateMany)
IssueStepsSaveFirst == <<"save", "updateMany", "notify">>

\* (otp.save with no Otp.updateMany before it)
IssueStepsUnsuperseded == <<"save", "notify">>

\* the operations of sendOTP / resendOTP on the collections, in the order of
\* the code: Otp.updateMany, otp.save, notification.save (and the response)
IssueSteps == <<"updateMany", "save", "notify">>

After(steps, s) ==
    IF \E i \in 1..(Len(steps) - 1) : steps[i] = s
    THEN steps[(CHOOSE i \in 1..(Len(steps) - 1) : steps[i] = s) + 1]
    ELSE "done"

Idle == [op |-> "idle", pc |-> "idle", client |-> "", otp |-> "", user |-> NoUser,
         otpId |-> 0, doc |-> <<>>, paths |-> {}, resp |-> NoResp, replay |-> FALSE]

\* the requests in flight that have a document to create yet
Creating == {r \in Slots : InFlight(r) /\ reqs[r].op # "verifyOTP" /\ reqs[r].otpId = 0}

\* the model takes a request that issues a code only while there is room for it
Room == Len(otps) + Cardinality(Creating) < MaxOtps

Arrive(op, c, code, u) ==
    [Idle EXCEPT !.op = op, !.client = c, !.otp = code, !.user = u,
                 !.replay = Replay(op, c, code)]

\* a step of a request that issues a code to c: from here on a verifyOTP
\* for c is no replay of one before
Issuing(c) ==
    /\ verified' = {p \in verified : p[1] # c}
    /\ UNCHANGED <<last, wrongs, accepted, replays>>

\* the request q of slot r ends with resp: the step-wise specifications keep
\* the tally of the responses, not the last response
Respond(r, q, resp) ==
    /\ reqs' = [reqs EXCEPT ![r] = Idle]
    /\ Outcomes(q.op, q.client, q.otp, q.otpId, resp, q.replay)
    /\ UNCHANGED <<last, wrongs>>

\* sendOTP up to generateOTP (lines 213-230)
BeginSend(r, c, u, K) ==
    /\ reqs[r].pc = "idle"
    /\ UNCHANGED <<otps, notifications, now, superseded>>
    /\ IF c \notin DOMAIN Clients
       THEN Respond(r, Arrive("sendOTP", c, "", u), ClientNotFound)
       ELSE IF Clients[c].phone = ""
       THEN Respond(r, Arrive("sendOTP", c, "", u), NoPhone)
       ELSE \E code \in K :
            /\ Room
            /\ reqs' = [reqs EXCEPT ![r] =
                   [Arrive("sendOTP", c, code, u) EXCEPT !.pc = IssueSteps[1]]]
            /\ Issuing(c)

\* resendOTP up to generateOTP (lines 378-413)
BeginResend(r, c, u, K) ==
    /\ reqs[r].pc = "idle"
    /\ UNCHANGED <<otps, notifications, now, superseded>>
    /\ IF c \notin DOMAIN Clients
       THEN Respond(r, Arrive("resendOTP", c, "", u), ClientNotFound)
       ELSE IF Clients[c].phone = ""
       THEN Respond(r, Arrive("resendOTP", c, "", u), NoPhone)
       ELSE \E found \in OrNone(FindOneResend(otps, c)) :
            IF ResendWait(otps, found, now) > 0
            THEN Respond(r, Arrive("resendOTP", c, "", u),
                         RateLimited(ResendWait(otps, found, now)))
            ELSE \E code \in K :
                 /\ Room
                 /\ reqs' = [reqs EXCEPT ![r] =
                        [Arrive("resendOTP", c, code, u) EXCEPT !.pc = IssueSteps[1]]]
                 /\ Issuing(c)

\* await Otp.updateMany(...) (lines 232-235, 415-418)
StepUpdateMany(r) ==
    /\ reqs[r].pc = "updateMany"
    /\ otps' = UpdateManyUsed(otps, reqs[r].client)
    /\ superseded' = superseded \cup Unused(otps, reqs[r].client)
    /\ reqs' = [reqs EXCEPT ![r].pc = After(IssueSteps, "updateMany")]
    /\ Issuing(reqs[r].client)
    /\ UNCHANGED <<notifications, now>>

\* new Otp(...); await otp.save() (lines 237-243, 420-426)
StepSave(r) ==
    /\ reqs[r].pc = "save"
    /\ otps' = Append(otps, NewOtp(reqs[r].client, reqs[r].otp,
                                   Clients[reqs[r].client].phone, now))
    /\ reqs' = [reqs EXCEPT ![r].pc = After(IssueSteps, "save"),
                            ![r].otpId = Len(otps) + 1]
    /\ Issuing(reqs[r].client)
    /\ UNCHANGED <<notifications, now, superseded>>

\* if (req.user) await notification.save(); res.json(...) (lines 253-283, 436-466)
StepNotify(r) ==
    /\ reqs[r].pc = "notify"
    /\ notifications' =
          IF reqs[r].user # NoUser
          THEN Append(notifications,
                      NewNotification(AuditType(reqs[r].op), reqs[r].user,
                                      reqs[r].client, reqs[r].otpId))
          ELSE notifications
    /\ Respond(r, [reqs[r] EXCEPT !.otp = ""],
               Generated(reqs[r].op, reqs[r].otp, reqs[r].otpId))
    /\ UNCHANGED <<otps, now, superseded>>

\* verifyOTP up to the save of the fetched document (lines 305-342)
BeginVerify(r, c, code) ==
    /\ reqs[r].pc = "idle"
    /\ UNCHANGED <<otps, notifications, now, superseded>>
    /\ \E i \in OrNone(FindOneVerify(otps, c, code)) :
        IF i = 0
        THEN Respond(r, Arrive("verifyOTP", c, code, NoUser), InvalidOtp)
        ELSE LET v == VerifyFetched(otps[i], code, now) IN
             /\ reqs' = [reqs EXCEPT ![r] =
                    [Arrive("verifyOTP", c, code, NoUser) EXCEPT
                        !.pc = "write", !.otpId = i, !.doc = v.doc, !.paths = v.paths,
                        !.resp = v.resp]]
             /\ UNCHANGED <<last, wrongs, verified, accepted, replays>>

\* await otpRecord.save() and the response (lines 322-327, 333-339, 343-356)
StepWrite(r) ==
    /\ reqs[r].pc = "write"
    /\ otps' = SaveDoc(otps, reqs[r].otpId, reqs[r].doc, reqs[r].paths)
    /\ Respond(r, reqs[r], reqs[r].resp)
    /\ UNCHANGED <<notifications, now, superseded>>

\* getOTPStatus (lines 481-510)
StepStatus(r, c) ==
    /\ reqs[r].pc = "idle"
    /\ UNCHANGED <<otps, notifications, now, superseded>>
    /\ \E found \in OrNone(FindOneStatus(otps, c)) :
        Respond(r, [Arrive("getOTPStatus", c, "", NoUser) EXCEPT !.otpId = found],
                StatusResp(otps, found, now))

\* a request arrives, in the first slot that is free
Begin(r) ==
    /\ \A q \in Slots : q < r => InFlight(q)
    /\ \/ \E c \in ConcClients, u \in Actors : BeginSend(r, c, u, generateOTP)
       \/ \E c \in ConcClients, u \in Actors : BeginResend(r, c, u, generateOTP)
       \/ \E c \in ConcClients, code \in SubmittedCodes : BeginVerify(r, c, code)
       \/ \E c \in ConcClients : StepStatus(r, c)

\* a request in flight takes its next step
Step(r) ==
    \/ StepUpdateMany(r)
    \/ StepSave(r)
    \/ StepNotify(r)
    \/ StepWrite(r)

(* Concurrent requests: any slot may take a request or a step at any time *)
ConcNext ==
    \/ \E t \in Instants : Tick(t)
    \/ \E r \in Slots : Begin(r)
    \/ \E r \in Slots : Step(r)

SpecConc == Init /\ [][ConcNext]_vars

(* One request at a time, seen step by step *)
SeqNext ==
    \/ \E t \in Instants : Tick(t)
    \/ \E r \in Slots : (\A q \in Slots : ~InFlight(q)) /\ Begin(r)
    \/ \E r \in Slots : Step(r)

SpecSeq == Init /\ [][SeqNext]_vars

----------------------------------------------------------------------------
(* Faults: an awaited operation on a collection rejects, or Client.findById *)
(* of a successful verifyOTP resolves to null (the Client collection is     *)
(* written by code outside these handlers) and client._id throws.           *)

\* (notification.save awaited after the try block)
CaughtBeforeNotify(op, step) == step # "notify"

\* the operation of step lies within the handler's try block
\* (lines 203-285, 295-357, 368-468, 480-512)
Caught(op, step) == TRUE

\* the operation of step throws in request q of slot r: the catch block
\* answers, or the error leaves the handler with no response given
\* (the request is recorded with the step that failed, not with its time)
Thrown(r, q, step) ==
    /\ reqs' = [reqs EXCEPT ![r] =
            IF Caught(q.op, step) THEN Idle ELSE [q EXCEPT !.pc = "unhandled"]]
    /\ last' = [op |-> q.op, client |-> q.client,
                otp |-> IF q.op = "verifyOTP" THEN q.otp ELSE "", user |-> q.user,
                otpId |-> q.otpId,
                resp |-> IF Caught(q.op, step) THEN ServerError ELSE NoResp,
                wrongs |-> 0, at |-> 0, fault |-> step]
    /\ UNCHANGED <<wrongs, verified, accepted, replays>>

\* the first read of a request rejects: Client.findById of sendOTP and
\* resendOTP, Otp.findOne of verifyOTP and getOTPStatus
BeginThrows(r, op, c, code, u) ==
    /\ reqs[r].pc = "idle"
    /\ Thrown(r, Arrive(op, c, code, u), "read")
    /\ UNCHANGED <<otps, notifications, now, superseded>>

\* the operation a request in flight awaits rejects
StepThrows(r) ==
    /\ reqs[r].pc \in {"updateMany", "save", "notify", "write"}
    /\ reqs[r].pc = "notify" => reqs[r].user # NoUser
    /\ Thrown(r, reqs[r], reqs[r].pc)
    /\ UNCHANGED <<otps, notifications, now, superseded>>

\* otpRecord.save() of a successful verifyOTP resolves, Client.findById
\* rejects or resolves to null (lines 343-353)
LookupThrows(r) ==
    /\ reqs[r].pc = "write"
    /\ reqs[r].resp = Verified
    /\ otps' = SaveDoc(otps, reqs[r].otpId, reqs[r].doc, reqs[r].paths)
    /\ Thrown(r, reqs[r], "lookup")
    /\ UNCHANGED <<notifications, now, superseded>>

(* One request at a time, step by step, any of its operations failing *)
FaultNext ==
    \/ \E t \in Instants : Tick(t)
    \/ \E r \in Slots : (\A q \in Slots : ~InFlight(q)) /\ Begin(r)
    \/ \E r \in Slots : Step(r)
    \/ \E op \in {"sendOTP", "resendOTP", "getOTPStatus"}, c \in ConcClients, u \in Actors :
            (\A q \in Slots : ~InFlight(q)) /\ BeginThrows(1, op, c, "", u)
    \/ \E c \in ConcClients, code \in SubmittedCodes :
            (\A q \in Slots : ~InFlight(q)) /\ BeginThrows(1, "verifyOTP", c, code, NoUser)
    \/ \E r \in Slots : StepThrows(r)
    \/ \E r \in Slots : LookupThrows(r)

SpecFault == Init /\ [][FaultNext]_vars

----------------------------------------------------------------------------
(* What the claims are stated with *)

Records(c) == {i \in DOMAIN otps : otps[i].client = c}

IssuedOk == last.op \in {"sendOTP", "resendOTP"} /\ last.resp.success

----------------------------------------------------------------------------
(* C1: after any sequence of sendOTP, resendOTP, verifyOTP and getOTPStatus *)
(* requests, each run to completion before the next starts, every client   *)
(* has at most one OTP record with isUsed = false.                         *)
C1_SingleActiveOtp ==
    \A c \in ClientIds : Cardinality(Unused(otps, c)) <= 1

\* a second code has just been issued to a client: the first one is used
C1_Witness ==
    /\ IssuedOk
    /\ Cardinality(Records(last.client)) >= 2
    /\ Unused(otps, last.client) = {last.otpId}

(* C2: when two sendOTP / resendOTP requests for the same client overlap,  *)
(* their updateMany and their save interleaved in any order, the client    *)
(* still never has more than one record with isUsed = false.               *)
C2_SingleActiveOtpConcurrent ==
    \A c \in ConcClients : Cardinality(Unused(otps, c)) <= 1

(* C3: when two overlapping verifyOTP requests submit the same correct     *)
(* code for the same client, at most one of them is answered with success: *)
(* a record is consumed once.                                              *)
C3_ConsumedOnce ==
    \A i \in DOMAIN otps : CopiesIn(i, accepted) <= 1

(* C4: a verifyOTP that overlaps a sendOTP / resendOTP for the same client *)
(* is never answered with success for a record that the issue has          *)
(* superseded.                                                             *)
C4_NoSuccessOnSuperseded ==
    \A i \in superseded : CopiesIn(i, accepted) = 0

(* C5: after exactly 3 verifyOTP calls with a wrong code against a         *)
(* client's active record, a 4th verifyOTP fails with the expired /        *)
(* attempts-exceeded error even with the correct code, and the 3rd         *)
(* failure reports attemptsLeft = 0.                                       *)
C5_LockedAfterThreeWrong ==
    /\ (last.op = "verifyOTP" /\ last.wrongs = MaxAttempts) => last.resp = Expired
    /\ (last.op = "verifyOTP" /\ last.wrongs = MaxAttempts - 1
            /\ wrongs = [client |-> last.client, n |-> MaxAttempts])
        => last.resp.attemptsLeft = 0

(* C6: a verifyOTP that submits a code different from the code of the      *)
(* client's active record increments that record's attempts by one,        *)
(* persists it, and fails with Invalid OTP reporting                       *)
(* attemptsLeft = 3 - attempts (2 for the first wrong attempt).            *)
C6_WrongCodeCounted ==
    \A i \in DOMAIN otps :
        (/\ last.op = "verifyOTP"
         /\ last.wrongs = 0
         /\ wrongs = [client |-> last.client, n |-> 1]
         /\ i \in Unused(otps, last.client)
         /\ isValid(otps[i], now)
         /\ otps[i].otp # last.otp)
        => /\ otps[i].attempts = 1
           /\ last.resp.message = "Invalid OTP"
           /\ last.resp.attemptsLeft = 3 - otps[i].attempts

(* C7: once verifyOTP has returned success for a client and code, every    *)
(* later verifyOTP with the same client and code, with no new issue in     *)
(* between, fails: it never returns success a second time.                 *)
C7_NoSecondSuccess ==
    replays = {}

(* C8: for every OTP record, once isUsed is true no operation sets it back *)
(* to false.                                                               *)
C8_UsedIsTerminal ==
    [][\A i \in DOMAIN otps : otps[i].isUsed => otps'[i].isUsed]_vars

\* a verifyOTP has written to a record that an issue had superseded
C8_Witness ==
    \E i \in superseded : otps[i].isUsed /\ CopiesIn(i, accepted) >= 1

(* C9: for every OTP record, attempts never decreases and never exceeds 3. *)
C9_AttemptsMonotone ==
    [][\A i \in DOMAIN otps : /\ otps'[i].attempts >= otps[i].attempts
                              /\ otps'[i].attempts <= MaxAttempts]_vars

\* two verifyOTP have written their count of attempts to the same record
C9_Witness ==
    \E i \in DOMAIN otps : otps[i].attempts = 1 /\ CopiesIn(i, accepted) = 2

(* C10: when a client is issued an OTP twice in succession, the first      *)
(* record is marked isUsed = true before the second is persisted: in no    *)
(* state on the way are both unused.                                       *)
C10_SupersededBeforeSaved ==
    \A c \in ConcClients :
        \A i, j \in Records(c) : (~otps[i].isUsed /\ ~otps[j].isUsed) => i = j

\* the second issue has marked the first record used, and has yet to save its own
C10_Witness ==
    \E r \in Slots :
        /\ reqs[r].pc = "save"
        /\ Records(reqs[r].client) # {}
        /\ Records(reqs[r].client) \subseteq superseded

(* C11: resendOTP is rejected with the rate-limit error (429) exactly when *)
(* the client's most recent record exists, is valid and was created less   *)
(* than 30 seconds ago; a rejected resendOTP changes no OTP record,        *)
(* creates none and logs no audit event.                                   *)
RecentValid(o, c, t) ==
    \E i \in Latest(o, {j \in DOMAIN o : o[j].client = c}) :
        isValid(o[i], t) /\ t - o[i].createdAt < 30000

C11_ThrottledExactly ==
    [][(last'.op = "resendOTP" /\ now' = now)
        => /\ last'.resp.status = 429 <=> RecentValid(otps, last'.client, now)
           /\ last'.resp.status = 429
                => /\ otps' = otps
                   /\ notifications' = notifications
                   /\ superseded' = superseded]_vars

\* a resendOTP has been rejected in the last millisecond of the throttle
C11_Witness ==
    /\ last.op = "resendOTP"
    /\ last.resp.status = 429
    /\ \E i \in Unused(otps, last.client) : last.at - otps[i].createdAt = 29999

(* C12, as stated: when resendOTP is called twice within 30 seconds for    *)
(* the same client (one that exists and has a phone number), the second    *)
(* call is rate-limited and its wait time is an integer from 1 to 30.      *)
C12_SecondResendLimited ==
    [][(/\ last.op = "resendOTP"
        /\ last'.op = "resendOTP"
        /\ now' = now
        /\ last'.client = last.client
        /\ last.client \in DOMAIN Clients
        /\ Clients[last.client].phone # ""
        /\ now - last.at < 30000)
        => /\ last'.resp.status = 429
           /\ last'.resp.waitTime \in 1..30]_vars

(* C12, amended: when a resendOTP that issued a code is followed within 30 *)
(* seconds, with no request in between, by a resendOTP for the same        *)
(* client, the second call is rate-limited and its wait time,              *)
(* ceil((30s - elapsed)/1s), is an integer from 1 to 30.                   *)
C12_ResendAfterIssueLimited ==
    [][(/\ last.op = "resendOTP"
        /\ last.resp.success
        /\ last'.op = "resendOTP"
        /\ now' = now
        /\ last'.client = last.client
        /\ now - last.at < 30000)
        => /\ last'.resp.status = 429
           /\ last'.resp.waitTime \in 1..30
           /\ 1000 * last'.resp.waitTime >= 30000 - (now - last.at)
           /\ 1000 * (last'.resp.waitTime - 1) < 30000 - (now - last.at)]_vars

\* a resendOTP has been made to wait one second for the code of a resendOTP
C12_Witness ==
    /\ last.op = "resendOTP"
    /\ last.resp.status = 429
    /\ last.resp.waitTime = 1
    /\ \E k \in DOMAIN notifications :
        /\ notifications[k].type = "otp_resent"
        /\ notifications[k].otpId \in Unused(otps, last.client)

(* C13: a resendOTP that is not rate-limited has the effect of sendOTP on  *)
(* the client's OTP records: every unused record of the client is marked   *)
(* used, one new record with attempts = 0 and isUsed = false is created,   *)
(* and nothing else changes.                                               *)
IssueEffect(c) ==
    /\ Len(otps') = Len(otps) + 1
    /\ \A i \in DOMAIN otps :
        otps'[i] = IF otps[i].client = c THEN [otps[i] EXCEPT !.isUsed = TRUE] ELSE otps[i]
    /\ otps'[Len(otps')].client = c
    /\ otps'[Len(otps')].attempts = 0
    /\ ~otps'[Len(otps')].isUsed

C13_ResendAsSend ==
    [][(last'.op \in {"sendOTP", "resendOTP"} /\ last'.resp.success /\ last' # last)
        => IssueEffect(last'.client)]_vars

\* a resendOTP has superseded a record that was unused
C13_Witness ==
    /\ last.op = "resendOTP"
    /\ last.resp.success
    /\ \E j \in superseded :
        j # last.otpId /\ otps[j].client = last.client /\ otps[j].attempts = 0

(* C14: sendOTP is never rate-limited: for a client that exists and has a  *)
(* phone number it issues a new active record, however recent the record   *)
(* before it is.                                                           *)
C14_SendUnthrottled ==
    (last.op = "sendOTP" /\ last.client \in DOMAIN Clients /\ Clients[last.client].phone # "")
        => /\ last.resp.status = 200
           /\ last.resp.success
           /\ last.otpId \in Unused(otps, last.client)
           /\ otps[last.otpId].createdAt = last.at
           /\ otps[last.otpId].attempts = 0

\* a sendOTP has issued a code less than 30 s after the client's code before
C14_Witness ==
    /\ last.op = "sendOTP"
    /\ last.resp.success
    /\ \E j \in superseded :
        /\ j # last.otpId
        /\ otps[j].client = last.client
        /\ last.at - otps[j].createdAt < 30000
        /\ last.at - otps[j].createdAt > 0

(* C15: a verifyOTP with no unused record matching both the client and the *)
(* submitted code fails with Invalid OTP and leaves every OTP record (and  *)
(* the audit log) unchanged, so a retry meets the same state and fails the *)
(* same way.                                                               *)
C15_NoMatchNoChange ==
    [][(/\ last'.op = "verifyOTP"
        /\ now' = now
        /\ FindOneVerify(otps, last'.client, last'.otp) = {})
        => /\ last'.resp = InvalidOtp
           /\ otps' = otps
           /\ notifications' = notifications]_vars

\* a wrong code has been refused while the client had an unused record
C15_Witness ==
    /\ last.op = "verifyOTP"
    /\ last.resp = InvalidOtp
    /\ \E i \in Unused(otps, last.client) : otps[i].otp # last.otp

(* C16: a verifyOTP that finds an unused record matching the client and    *)
(* the code, the record not valid (expired, or attempts >= 3), marks the   *)
(* record used, leaves its attempts as they were and fails with the        *)
(* expired error, never with success.                                      *)
C16_InvalidRecordExpires ==
    [][(/\ last'.op = "verifyOTP"
        /\ now' = now
        /\ last'.otpId \in FindOneVerify(otps, last'.client, last'.otp)
        /\ ~isValid(otps[last'.otpId], now))
        => /\ otps'[last'.otpId].isUsed
           /\ otps'[last'.otpId].attempts = otps[last'.otpId].attempts
           /\ last'.resp = Expired
           /\ ~last'.resp.success]_vars

\* the right code has been refused at the record's expiry
C16_Witness ==
    /\ last.op = "verifyOTP"
    /\ last.resp = Expired
    /\ last.otpId # 0
    /\ otps[last.otpId].otp = last.otp
    /\ otps[last.otpId].isUsed
    /\ last.at >= otps[last.otpId].expiresAt

(* C17: getOTPStatus changes no OTP record and no audit event; it does not *)
(* mark an expired or exhausted record used.                               *)
C17_StatusReadOnly ==
    [][(last'.op = "getOTPStatus" /\ now' = now)
        => /\ otps' = otps
           /\ notifications' = notifications]_vars

\* the status of an expired record has been asked, and the record is unused
C17_Witness ==
    /\ last.op = "getOTPStatus"
    /\ last.otpId # 0
    /\ ~otps[last.otpId].isUsed
    /\ last.at >= otps[last.otpId].expiresAt

(* C18: getOTPStatus reports hasActiveOTP = true exactly when the client   *)
(* has some record that is valid (unused, not expired, attempts < 3), and  *)
(* reports hasActiveOTP = false, without an error, for a client that was   *)
(* never issued a code.                                                    *)
C18_ActiveIffSomeValid ==
    last.op = "getOTPStatus"
        => /\ last.resp.status = 200
           /\ last.resp.success
           /\ last.resp.hasActiveOTP
                <=> \E i \in Records(last.client) : isValid(otps[i], last.at)

IssuedTo(c) ==
    /\ last'.op \in {"sendOTP", "resendOTP"}
    /\ last'.resp.success
    /\ last'.client = c
    /\ last' # last

C21_RecordsOnlyGrow ==
    [][/\ Len(otps') >= Len(otps)
       /\ \A i \in DOMAIN otps :
            /\ otps'[i].client = otps[i].client
            /\ otps'[i].otp = otps[i].otp
            /\ otps'[i].createdAt = otps[i].createdAt
       /\ \A c \in ClientIds :
            Cardinality({i \in DOMAIN otps' : otps'[i].client = c})
                = Cardinality(Records(c)) + (IF IssuedTo(c) THEN 1 ELSE 0)]_vars

\* a verifyOTP has consumed the second record of a client, the first still there
C21_Witness ==
    /\ last.op = "verifyOTP"
    /\ last.resp.success
    /\ last.otpId = 2
    /\ Cardinality(Records(last.client)) = 2

(* C22: sendOTP and resendOTP for an unknown client fail with Client not   *)
(* found (404), and for a client without a phone number with a 400 error;  *)
(* in both cases no OTP record is superseded or created and no audit event *)
(* is logged.                                                              *)
C22_NoClientNoIssue ==
    [][(last'.op \in {"sendOTP", "resendOTP"} /\ now' = now)
        => /\ last'.client \notin DOMAIN Clients
                => /\ last'.resp = ClientNotFound
                   /\ last'.resp.status = 404
                   /\ otps' = otps
                   /\ notifications' = notifications
                   /\ superseded' = superseded
           /\ (last'.client \in DOMAIN Clients /\ Clients[last'.client].phone = "")
                => /\ last'.resp = NoPhone
                   /\ last'.resp.status = 400
                   /\ otps' = otps
                   /\ notifications' = notifications
                   /\ superseded' = superseded]_vars

\* a resendOTP for the client without a phone number has been refused
C22_Witness ==
    /\ last.op = "resendOTP"
    /\ last.resp = NoPhone
    /\ last.client = "c3"
    /\ otps # <<>>

(* C26: verifyOTP increments attempts only in a request whose submitted    *)
(* code equals the code of the record it fetched: no response of the       *)
(* mismatch branch (one that reports attemptsLeft) is ever given, and with *)
(* requests one at a time attempts never exceeds 1 and a record whose      *)
(* attempts is 1 is used.                                                  *)
C26_AttemptsOnlyOnMatch ==
    [][/\ \A i \in DOMAIN otps :
            otps'[i].attempts # otps[i].attempts
                => /\ last'.op = "verifyOTP"
                   /\ last'.otpId = i
                   /\ last'.otp = otps[i].otp
       /\ \A i \in DOMAIN otps' :
            /\ otps'[i].attempts <= 1
            /\ otps'[i].attempts = 1 => otps'[i].isUsed
       /\ last'.op = "verifyOTP" => last'.resp.attemptsLeft = -1]_vars

\* a wrong code has been refused after a right code was accepted and counted
C26_Witness ==
    /\ last.op = "verifyOTP"
    /\ last.resp = InvalidOtp
    /\ \E i \in Records(last.client) :
        otps[i].attempts = 1 /\ otps[i].otp # last.otp /\ CopiesIn(i, accepted) = 1
    /\ \E i \in Unused(otps, last.client) :
        otps[i].attempts = 0 /\ otps[i].otp = otps[1].otp

(* C27: sendOTP, resendOTP and verifyOTP for a client never change,        *)
(* supersede or create an OTP record of another client, also when the two  *)
(* clients hold the same code.                                             *)
C27_OtherClientsUntouched ==
    [][(last'.op \in {"sendOTP", "resendOTP", "verifyOTP"} /\ now' = now)
        => /\ Len(otps') >= Len(otps)
           /\ \A i \in DOMAIN otps :
                otps[i].client # last'.client => otps'[i] = otps[i]
           /\ \A i \in DOMAIN otps' :
                i \notin DOMAIN otps => otps'[i].client = last'.client
           /\ \A i \in superseded' :
                i \notin superseded => otps[i].client = last'.client]_vars

\* a client's code has been accepted while another client holds the same code unused
C27_Witness ==
    /\ last.op = "verifyOTP"
    /\ last.resp.success
    /\ \E j \in DOMAIN otps :
        /\ otps[j].client # last.client
        /\ otps[j].otp = last.otp
        /\ isValid(otps[j], now)

C24_DeliveryNeverInvalidates ==
    [][/\ last'.op = "whatsappService.sendOTP"
            => /\ last'.resp.message # "threw"
               /\ last'.resp.success
                    <=> (last'.client = "configured" /\ last'.otp = "sent")
               /\ otps' = otps
       /\ (last'.op \in {"sendOTP", "resendOTP"} /\ last'.resp.success /\ last' # last)
            => isValid(otps'[Len(otps')], now)]_vars

\* a delivery has been rejected and the client's code, issued before, is valid
C24_Witness ==
    /\ last.op = "whatsappService.sendOTP"
    /\ ~last.resp.success
    /\ last.otp = "rejected"
    /\ last.resp.status = 401
    /\ \E i \in DOMAIN otps : isValid(otps[i], now)

(* C23: in every OTP operation a fault raised at any step (a read or a     *)
(* write of a collection that fails, or the client lookup of a successful  *)
(* verifyOTP returning nothing) ends the request with the generic server   *)
(* error as its one response, and never leaves the handler unhandled.      *)
C23_FaultsAnswered ==
    /\ \A r \in Slots : reqs[r].pc # "unhandled"
    /\ last.fault # ""
        => /\ last.resp = ServerError
           /\ last.resp.status = 500
           /\ ~last.resp.success

\* a verifyOTP has consumed the code and failed at the lookup of the client
C23_Witness ==
    /\ last.op = "verifyOTP"
    /\ last.fault = "lookup"
    /\ last.otpId # 0
    /\ otps[last.otpId].isUsed
    /\ CopiesIn(last.otpId, accepted) = 0
    /\ \A r \in Slots : ~InFlight(r)

(* C28: if the save of the new record fails in sendOTP or resendOTP after  *)
(* the supersession update has run, the request ends with the generic      *)
(* server error and the client has no unused record: the code that was     *)
(* active is not restored, and no audit event is written.                  *)
C28_FailedSaveLeavesNoCode ==
    [][\A r \in Slots :
        (reqs[r].pc = "save" /\ reqs'[r].pc = "idle")
            => /\ last'.fault = "save"
               /\ last'.resp = ServerError
               /\ Unused(otps', reqs[r].client) = {}
               /\ otps' = otps
               /\ notifications' = notifications]_vars

\* the save has failed after the client's active code was superseded
C28_Witness ==
    /\ last.fault = "save"
    /\ last.resp = ServerError
    /\ Records(last.client) # {}
    /\ Records(last.client) \subseteq superseded
    /\ Unused(otps, last.client) = {}
    /\ Len(notifications) = Len(otps)
    /\ \A r \in Slots : ~InFlight(r)

====
